---- MODULE Spec2Model ----
(***************************************************************************)
(* Model of expense_tracker.py: the ExpenseDatabase store (one SQLite      *)
(* table with an AUTOINCREMENT key) and the ExpenseAnalyzer read-only      *)
(* computations over a snapshot of it.                                     *)
(*                                                                         *)
(* Representation                                                          *)
(*  - amount: an integer number of mills (1/1000 of a currency unit), so   *)
(*    that rounding to 2 decimals (cents) is a real conversion.  Binary    *)
(*    floating-point error is not modelled.                                *)
(*  - date: the stored TEXT.  "YYYY-MM-DD" is the tuple <<Y, M, D>> and    *)
(*    the empty string is <<>>; SQLite's BINARY comparison of such texts   *)
(*    is the lexicographic comparison of the tuples.                       *)
(*  - rounded aggregates are integers in cents (or 1/100 of a percent).    *)
(***************************************************************************)
EXTENDS Integers, Sequences, FiniteSets, TLC

VARIABLES
    expenses,     \* the rows of table expenses: a set of records
    sqlite_seq,   \* sqlite_sequence.seq for the table: largest rowid ever used
    argsort_ties, \* how this build's numpy quicksort orders equal keys
    result,       \* what the last call returned to its caller
    issued        \* history: the ids add_expense has returned, oldest first

vars == <<expenses, sqlite_seq, argsort_ties, result, issued>>

\* Bound: number of INSERTs in a behaviour.
MaxId == 3

\* n default of top_expenses.
DefaultN == 5

\* Inputs of add_expense.
Dates == {<<2023, 12, 31>>, <<2024, 1, 1>>, <<2024, 1, 31>>, <<2024, 2, 30>>, <<>>}
Categories == {"Food & Dining", "Other", "Shopping"}
PaymentMethods == {"Cash", "Credit Card"}

\* Arguments of top_expenses.
TopArgs == {-1, 0, 1, 2, DefaultN}

\* The texts used as grouping keys, in ascending (code point) order.
KeyOrder == <<"Cash", "Credit Card", "Food & Dining", "Other", "Shopping">>

----------------------------------------------------------------------------
\* Generic helpers

Min(S) == CHOOSE x \in S : \A y \in S : x <= y
Max(S) == CHOOSE x \in S : \A y \in S : x >= y

Range(s) == {s[i] : i \in 1..Len(s)}

RECURSIVE SumSeq(_)
SumSeq(s) == IF s = <<>> THEN 0 ELSE Head(s) + SumSeq(Tail(s))

Column(df, col) == [i \in 1..Len(df) |-> df[i][col]]

\* Comparison of TEXT values that are tuples of numbers (dates, months).
RECURSIVE TextLess(_, _)
TextLess(a, b) ==
    IF a = <<>> THEN b # <<>>
    ELSE IF b = <<>> THEN FALSE
    ELSE IF Head(a) # Head(b) THEN Head(a) < Head(b)
    ELSE TextLess(Tail(a), Tail(b))

StrRank(s) == CHOOSE i \in 1..Len(KeyOrder) : KeyOrder[i] = s

\* Round n/d (n >= 0, d > 0) to the nearest integer, halves to even.
RoundHalfEven(n, d) ==
    LET q == n \div d
        r2 == 2 * (n % d)
    IN  IF r2 < d THEN q
        ELSE IF r2 > d THEN q + 1
        ELSE IF q % 2 = 0 THEN q ELSE q + 1

\* .round(2) of an amount in mills, in cents.
Round2(mills) == RoundHalfEven(mills, 10)

----------------------------------------------------------------------------
\* Calendar

IsLeap(y) == (y % 4 = 0 /\ y % 100 # 0) \/ y % 400 = 0

DaysInMonth(y, m) ==
    IF m = 2 THEN (IF IsLeap(y) THEN 29 ELSE 28)
    ELSE IF m \in {4, 6, 9, 11} THEN 30 ELSE 31

RECURSIVE DaysBeforeMonth(_, _)
DaysBeforeMonth(y, m) ==
    IF m = 1 THEN 0 ELSE DaysBeforeMonth(y, m - 1) + DaysInMonth(y, m - 1)

\* Proleptic Gregorian ordinal of a valid date.
Ordinal(y, m, d) ==
    LET p == y - 1
    IN  365 * p + (p \div 4) - (p \div 100) + (p \div 400)
          + DaysBeforeMonth(y, m) + d

\* pd.to_datetime of one stored text: a timestamp, NaT for a null-like
\* text (the empty string), or a ValueError for anything else that is not
\* a calendar date.
ToDatetime(text) ==
    IF text = <<>> THEN [kind |-> "NaT"]
    ELSE IF Len(text) = 3 /\ text[2] \in 1..12
            /\ text[3] \in 1..DaysInMonth(text[1], text[2])
         THEN [kind |-> "ok", day |-> Ordinal(text[1], text[2], text[3]),
               month |-> <<text[1], text[2]>>]
         ELSE [kind |-> "ValueError"]

----------------------------------------------------------------------------
\* ExpenseDatabase

\* ORDER BY date DESC; rows with equal date come out in rowid order.
OrderedBefore(e, f) ==
    TextLess(f.date, e.date) \/ (f.date = e.date /\ e.id < f.id)

RECURSIVE OrderByDateDesc(_)
OrderByDateDesc(S) ==
    IF S = {} THEN <<>>
    ELSE LET first == CHOOSE e \in S : \A f \in S \ {e} : OrderedBefore(e, f)
         IN  <<first>> \o OrderByDateDesc(S \ {first})

\* get_all_expenses: the snapshot every analysis starts from.
GetAllExpenses(table) == OrderByDateDesc(table)

----------------------------------------------------------------------------
\* pandas / numpy building blocks

\* numpy argsort for a descending sort_values (nargsort, ascending=False):
\* positions of vals by value, largest first.  The default kind is
\* quicksort, which leaves the order of equal values to the build:
\* "input" keeps them in input order, "reverse" turns them around.
RECURSIVE ArgsortDescFrom(_, _, _)
ArgsortDescFrom(vals, left, ties) ==
    IF left = {} THEN <<>>
    ELSE LET mx == Max({vals[i] : i \in left})
             cand == {i \in left : vals[i] = mx}
             i == IF ties = "input" THEN Min(cand) ELSE Max(cand)
         IN  <<i>> \o ArgsortDescFrom(vals, left \ {i}, ties)

ArgsortDesc(vals, ties) == ArgsortDescFrom(vals, DOMAIN vals, ties)

\* DataFrame.take: the rows at the given positions, in that order.
Take(df, idx) == [j \in 1..Len(idx) |-> df[idx[j]]]

\* sort_values(col, ascending=False) with the default kind.
SortValuesDesc(df, col, ties) == Take(df, ArgsortDesc(Column(df, col), ties))

\* Distinct values of a column in order of first appearance (hash table
\* order of value_counts).
RECURSIVE Unique(_)
Unique(s) ==
    IF s = <<>> THEN <<>>
    ELSE <<Head(s)>> \o Unique(SelectSeq(Tail(s), LAMBDA x : x # Head(s)))

StrLess(a, b) == StrRank(a) < StrRank(b)

\* Group keys of groupby (sort=True): ascending key order.
RECURSIVE SortedStrKeys(_)
SortedStrKeys(K) ==
    IF K = {} THEN <<>>
    ELSE LET k == CHOOSE x \in K : \A y \in K \ {x} : StrLess(x, y)
         IN  <<k>> \o SortedStrKeys(K \ {k})

\* Group keys of groupby with the months newest first.
RECURSIVE SortedMonthKeys_Descending(_)
SortedMonthKeys_Descending(K) ==
    IF K = {} THEN <<>>
    ELSE LET k == CHOOSE x \in K : \A y \in K \ {x} : TextLess(y, x)
         IN  <<k>> \o SortedMonthKeys_Descending(K \ {k})

RECURSIVE SortedMonthKeys(_)
SortedMonthKeys(K) ==
    IF K = {} THEN <<>>
    ELSE LET k == CHOOSE x \in K : \A y \in K \ {x} : TextLess(x, y)
         IN  <<k>> \o SortedMonthKeys(K \ {k})

\* The rows of one group, in frame order.
GroupRows(df, col, key) == SelectSeq(df, LAMBDA r : r[col] = key)

SumAmount(df) == SumSeq(Column(df, "amount"))

\* Series.value_counts(): distinct values with their counts, most frequent
\* first; sorted with the default kind.
ValueCounts(df, col, ties) ==
    LET keys == Unique(Column(df, col))
        counted == [i \in 1..Len(keys) |->
                      [key |-> keys[i], count |-> Len(GroupRows(df, col, keys[i]))]]
    IN  SortValuesDesc(counted, "count", ties)

\* nlargest with keep='last': equal values in reverse input order.
Nlargest_KeepLast(vals, n) ==
    IF n <= 0 THEN <<>>
    ELSE SubSeq(ArgsortDesc(vals, "reverse"), 1,
                IF n < Len(vals) THEN n ELSE Len(vals))

\* Positions of the n largest values, largest first, equal values in input
\* order (nlargest, keep='first'); nothing for n <= 0.
Nlargest(vals, n) ==
    IF n <= 0 THEN <<>>
    ELSE SubSeq(ArgsortDesc(vals, "input"), 1, Min({n, Len(vals)}))

\* Position of the first maximum (idxmax).
IdxMax(vals) == Min({i \in DOMAIN vals : vals[i] = Max(Range(vals))})

----------------------------------------------------------------------------
\* Values a call hands back

None == [kind |-> "None"]
Value(v) == [kind |-> "value", val |-> v]
Raised(e) == [kind |-> "raise", error |-> e]

----------------------------------------------------------------------------
\* ExpenseAnalyzer: each operation as a function of the snapshot df

\* get_spending_summary.  The mean is the exact quotient sum / count, kept
\* as the pair <<sum, count>>.
GetSpendingSummary(df) ==
    IF df = <<>> THEN None
    ELSE Value([total_expenses   |-> Len(df),
                total_spent      |-> SumAmount(df),
                average_expense  |-> <<SumAmount(df), Len(df)>>,
                largest_expense  |-> Max(Range(Column(df, "amount"))),
                smallest_expense |-> Min(Range(Column(df, "amount")))])

\* groupby('category').agg(sum, count, mean).round(2): one row per key, in
\* ascending key order.
CategoryGroups(df) ==
    LET keys == SortedStrKeys(Range(Column(df, "category")))
    IN  [i \in 1..Len(keys) |->
            LET g == GroupRows(df, "category", keys[i])
            IN  [category |-> keys[i],
                 Total    |-> Round2(SumAmount(g)),
                 Count    |-> Len(g),
                 Average  |-> RoundHalfEven(SumAmount(g), 10 * Len(g))]]

\* spending_by_category without its sort_values.
SpendingByCategory_Unsorted(df, ties) ==
    IF df = <<>> THEN None ELSE Value(CategoryGroups(df))

\* spending_by_category
SpendingByCategory(df, ties) ==
    IF df = <<>> THEN None
    ELSE Value(SortValuesDesc(CategoryGroups(df), "Total", ties))

\* groupby('payment_method').agg(sum, count).round(2)
PaymentGroups(df) ==
    LET keys == SortedStrKeys(Range(Column(df, "payment_method")))
    IN  [i \in 1..Len(keys) |->
            LET g == GroupRows(df, "payment_method", keys[i])
            IN  [payment_method |-> keys[i],
                 Total          |-> Round2(SumAmount(g)),
                 Count          |-> Len(g)]]

\* spending_by_payment_method
SpendingByPaymentMethod(df, ties) ==
    IF df = <<>> THEN None
    ELSE Value(SortValuesDesc(PaymentGroups(df), "Total", ties))

\* df['date'] = pd.to_datetime(df['date']) raises when one text does not parse.
DateParseFails(df) == \E i \in 1..Len(df) : ToDatetime(df[i].date).kind = "ValueError"

\* The year-month period a row falls in (dt.to_period('M')).
MonthOf(r) == ToDatetime(r.date).month

\* groupby('month').agg(sum, count, mean).round(2): rows whose month is NaT
\* belong to no group; groups in ascending period order.
MonthGroups(df) ==
    LET dated == SelectSeq(df, LAMBDA r : ToDatetime(r.date).kind = "ok")
        keys == SortedMonthKeys({MonthOf(dated[i]) : i \in 1..Len(dated)})
    IN  [i \in 1..Len(keys) |->
            LET g == SelectSeq(dated, LAMBDA r : MonthOf(r) = keys[i])
            IN  [month        |-> keys[i],
                 Total_Spent  |-> Round2(SumAmount(g)),
                 Num_Expenses |-> Len(g),
                 Avg_Expense  |-> RoundHalfEven(SumAmount(g), 10 * Len(g))]]

\* monthly_spending_trend
MonthlySpendingTrend(df) ==
    IF df = <<>> THEN None
    ELSE IF DateParseFails(df) THEN Raised("ValueError")
    ELSE Value(MonthGroups(df))

\* The columns top_expenses exposes, with the frame's index label.
Projection(df, i) ==
    [index       |-> i - 1,
     date        |-> df[i].date,
     amount      |-> df[i].amount,
     category    |-> df[i].category,
     description |-> df[i].description]

\* top_expenses without its check for an empty frame.
TopExpenses_NoEmptyCheck(df, n) ==
    LET idx == Nlargest(Column(df, "amount"), n)
    IN  Value([j \in 1..Len(idx) |-> Projection(df, idx[j])])

\* top_expenses
TopExpenses(df, n) ==
    IF df = <<>> THEN None
    ELSE LET idx == Nlargest(Column(df, "amount"), n)
         IN  Value([j \in 1..Len(idx) |-> Projection(df, idx[j])])

\* groupby('category')['amount'].sum(): unrounded sums in ascending key order.
CategoryTotals(df) ==
    LET keys == SortedStrKeys(Range(Column(df, "category")))
    IN  [i \in 1..Len(keys) |->
            [category |-> keys[i],
             Amount   |-> SumAmount(GroupRows(df, "category", keys[i]))]]

\* The percentage with the quotient taken in integers first.
Percentage_IntegerDivision(amount, total_spending) ==
    100 * 100 * (amount \div total_spending)

\* (category_totals / total_spending * 100).round(2), in 1/100 of a percent.
Percentage(amount, total_spending) == RoundHalfEven(100 * 100 * amount, total_spending)

\* category_percentage
CategoryPercentage(df, ties) ==
    IF df = <<>> THEN None
    ELSE LET total_spending == SumAmount(df)
             category_totals == SortValuesDesc(CategoryTotals(df), "Amount", ties)
         IN  Value([i \in 1..Len(category_totals) |->
                      [category   |-> category_totals[i].category,
                       Amount     |-> category_totals[i].Amount,
                       Percentage |-> Percentage(category_totals[i].Amount,
                                                 total_spending)]])

\* (df['date'].max() - df['date'].min()).days + 1: max and min skip NaT;
\* with nothing but NaT the difference is NaT and its .days is nan.
DateRange(df) ==
    LET days == {ToDatetime(df[i].date).day :
                   i \in {j \in 1..Len(df) : ToDatetime(df[j].date).kind = "ok"}}
    IN  IF days = {} THEN [nan |-> TRUE, days |-> 0]
        ELSE [nan |-> FALSE, days |-> Max(days) - Min(days) + 1]

\* f"${daily_avg:.2f}" with daily_avg = df['amount'].sum() / date_range.
DailyAvg(df) ==
    LET date_range == DateRange(df)
    IN  IF date_range.nan THEN [nan |-> TRUE, cents |-> 0]
        ELSE [nan |-> FALSE,
              cents |-> RoundHalfEven(SumAmount(df), 10 * date_range.days)]

\* len(df[df['amount'] > avg_expense * 2]) with avg_expense = sum / count.
LargePurchases(df) ==
    Cardinality({i \in 1..Len(df) : df[i].amount * Len(df) > 2 * SumAmount(df)})

\* find_patterns
FindPatterns(df, ties) ==
    IF df = <<>> THEN Value(<<>>)
    ELSE IF DateParseFails(df) THEN Raised("ValueError")
    ELSE LET most_frequent_category == ValueCounts(df, "category", ties)[1].key
             totals == CategoryTotals(df)
             highest == totals[IdxMax(Column(totals, "Amount"))]
             preferred_payment == ValueCounts(df, "payment_method", ties)[1].key
         IN  Value(<<
               [fact |-> "Most frequent expense category",
                value |-> most_frequent_category],
               [fact |-> "Highest spending category",
                value |-> highest.category, amount |-> Round2(highest.Amount)],
               [fact |-> "Most used payment method",
                value |-> preferred_payment],
               [fact |-> "Average daily spending",
                value |-> DailyAvg(df)],
               [fact |-> "Large purchases (>2x average)",
                value |-> LargePurchases(df)] >>)

----------------------------------------------------------------------------
\* The state machine

\* One call of add_expense.
Expense(date, amount, category, payment_method) ==
    [date |-> date, amount |-> amount, category |-> category,
     description |-> "", payment_method |-> payment_method]

\* The calls of add_expense that are tried: a plain call with its date, its
\* amount, its category or its payment method varied.
Inputs ==
    {Expense(d, 5000, "Food & Dining", "Cash") : d \in Dates}
    \cup
    {Expense(<<2024, 1, 1>>, a, "Food & Dining", "Cash") : a \in {5000, 10005}}
    \cup
    {Expense(<<2024, 1, 1>>, 5000, c, "Cash") : c \in Categories}
    \cup
    {Expense(<<2024, 1, 1>>, 5000, "Food & Dining", p) : p \in PaymentMethods}

Returned(op, args, ret) == [op |-> op, args |-> args, ret |-> ret]

Init ==
    /\ expenses = {}
    /\ sqlite_seq = 0
    /\ argsort_ties \in {"input", "reverse"}
    /\ result = Returned("__init__", <<>>, None)
    /\ issued = <<>>

\* INTEGER PRIMARY KEY without AUTOINCREMENT: one more than the largest
\* rowid now in the table.
NextRowid_MaxRowidPlusOne == Max({0} \cup {e.id : e \in expenses}) + 1

\* INTEGER PRIMARY KEY AUTOINCREMENT: one more than the largest rowid the
\* table has ever held.
NextRowid == Max({sqlite_seq} \cup {e.id : e \in expenses}) + 1

\* add_expense
AddExpense(date, amount, category, description, payment_method) ==
    /\ sqlite_seq < MaxId
    /\ LET expense_id == NextRowid
       IN  /\ expenses' = expenses \cup
                  {[id |-> expense_id, date |-> date, amount |-> amount,
                    category |-> category, description |-> description,
                    payment_method |-> payment_method]}
           /\ sqlite_seq' = expense_id
           /\ result' = Returned("add_expense", <<>>, Value(expense_id))
           /\ issued' = Append(issued, expense_id)
    /\ UNCHANGED argsort_ties

\* DELETE FROM expenses with no WHERE clause.
DeleteFrom_NoWhere(table, expense_id) == {}

\* DELETE FROM expenses WHERE id = ?
DeleteFrom(table, expense_id) == {e \in table : e.id # expense_id}

\* delete_expense: deleted = cursor.rowcount > 0
DeleteExpense(expense_id) ==
    /\ expenses' = DeleteFrom(expenses, expense_id)
    /\ result' = Returned("delete_expense", <<expense_id>>,
                          Value(Cardinality(expenses \ expenses') > 0))
    /\ UNCHANGED <<sqlite_seq, argsort_ties, issued>>

\* An analyzer call that writes its frame back with the rows whose date did
\* not convert to a timestamp left out.
Analyze_WritesFrameBack(op, args, ret) ==
    /\ result' = Returned(op, args, ret)
    /\ expenses' = {e \in expenses : ToDatetime(e.date).kind = "ok"}
    /\ UNCHANGED <<sqlite_seq, argsort_ties, issued>>

\* An analyzer call: snapshot, compute, return.
Analyze(op, args, ret) ==
    /\ result' = Returned(op, args, ret)
    /\ UNCHANGED <<expenses, sqlite_seq, argsort_ties, issued>>

CallGetSpendingSummary ==
    Analyze("get_spending_summary", <<>>,
            GetSpendingSummary(GetAllExpenses(expenses)))

CallSpendingByCategory ==
    Analyze("spending_by_category", <<>>,
            SpendingByCategory(GetAllExpenses(expenses), argsort_ties))

CallSpendingByPaymentMethod ==
    Analyze("spending_by_payment_method", <<>>,
            SpendingByPaymentMethod(GetAllExpenses(expenses), argsort_ties))

CallMonthlySpendingTrend ==
    Analyze("monthly_spending_trend", <<>>,
            MonthlySpendingTrend(GetAllExpenses(expenses)))

CallTopExpenses(n) ==
    Analyze("top_expenses", <<n>>, TopExpenses(GetAllExpenses(expenses), n))

CallCategoryPercentage ==
    Analyze("category_percentage", <<>>,
            CategoryPercentage(GetAllExpenses(expenses), argsort_ties))

CallFindPatterns ==
    Analyze("find_patterns", <<>>,
            FindPatterns(GetAllExpenses(expenses), argsort_ties))

Next ==
    \/ \E x \in Inputs :
         AddExpense(x.date, x.amount, x.category, x.description, x.payment_method)
    \/ \E expense_id \in 1..MaxId : DeleteExpense(expense_id)
    \/ CallGetSpendingSummary
    \/ CallSpendingByCategory
    \/ CallSpendingByPaymentMethod
    \/ CallMonthlySpendingTrend
    \/ \E n \in TopArgs : CallTopExpenses(n)
    \/ CallCategoryPercentage
    \/ CallFindPatterns

Spec == Init /\ [][Next]_vars

----------------------------------------------------------------------------
\* Properties

\* The snapshot an analysis of the current store works on.
Snapshot == GetAllExpenses(expenses)

\* The value a call returned (meaningful when it returned one).
Returns(op) == result.op = op /\ result.ret.kind = "value"

AbsDiff(a, b) == IF a >= b THEN a - b ELSE b - a

\* C1: with no record in the store, get_spending_summary,
\* spending_by_category, spending_by_payment_method, monthly_spending_trend,
\* top_expenses and category_percentage return None, find_patterns returns
\* the empty list, and none of them raises.
C1_EmptyStoreNoData ==
    expenses = {} =>
        /\ result.op \in {"get_spending_summary", "spending_by_category",
                          "spending_by_payment_method", "monthly_spending_trend",
                          "top_expenses", "category_percentage"}
             => result.ret = None
        /\ result.op = "find_patterns" => result.ret = Value(<<>>)

\* Every record was deleted again and top_expenses was asked for its default 5.
C1_Witness ==
    /\ expenses = {}
    /\ sqlite_seq > 1
    /\ result = Returned("top_expenses", <<DefaultN>>, None)

\* C2: on a non-empty snapshot, top_expenses(N) with N >= 1 returns
\* min(N, record count) rows; they are rows of the snapshot with the largest
\* amounts, in descending amount, rows of equal amount in snapshot order.
C2_TopNLargestStable ==
    (result.op = "top_expenses" /\ Snapshot # <<>> /\ result.args[1] >= 1) =>
        /\ result.ret.kind = "value"
        /\ LET df == Snapshot
               n == result.args[1]
               rows == result.ret.val
               chosen == {rows[j].index + 1 : j \in 1..Len(rows)}
           IN  /\ Len(rows) = (IF n < Len(df) THEN n ELSE Len(df))
               /\ Cardinality(chosen) = Len(rows)
               /\ chosen \subseteq 1..Len(df)
               /\ \A j \in 1..Len(rows) :
                     /\ rows[j].date = df[rows[j].index + 1].date
                     /\ rows[j].amount = df[rows[j].index + 1].amount
                     /\ rows[j].category = df[rows[j].index + 1].category
                     /\ rows[j].description = df[rows[j].index + 1].description
               /\ \A i \in (1..Len(df)) \ chosen : \A c \in chosen :
                     df[i].amount <= df[c].amount
               /\ \A j, k \in 1..Len(rows) :
                     j < k => \/ rows[j].amount > rows[k].amount
                              \/ /\ rows[j].amount = rows[k].amount
                                 /\ rows[j].index < rows[k].index

\* Two of three records are returned and they have the same amount.
C2_Witness ==
    /\ Cardinality(expenses) = 3
    /\ Returns("top_expenses")
    /\ result.args = <<2>>
    /\ result.ret.val[1].amount = result.ret.val[2].amount
    /\ \E e \in expenses : e.amount < result.ret.val[1].amount

\* C3: top_expenses with N < 1 on a non-empty snapshot is reported to the
\* caller as an error.
C3_TopNBelowOneRaises ==
    (result.op = "top_expenses" /\ expenses # {} /\ result.args[1] < 1) =>
        result.ret.kind = "raise"

\* Position at which a value of a column is first met in the snapshot.
FirstSeen(df, col, v) == Min({i \in 1..Len(df) : df[i][col] = v})

\* Unrounded sum of the amounts of the rows with value v in a column.
SumWhere(df, col, v) ==
    SumSeq([i \in 1..Len(df) |-> IF df[i][col] = v THEN df[i].amount ELSE 0])

CountWhere(df, col, v) == Cardinality({i \in 1..Len(df) : df[i][col] = v})

\* One row per distinct value of a column of the snapshot.
OneRowPerKey(rows, keycol, df, col) ==
    /\ {rows[j][keycol] : j \in 1..Len(rows)} = {df[i][col] : i \in 1..Len(df)}
    /\ \A j, k \in 1..Len(rows) : rows[j][keycol] = rows[k][keycol] => j = k

\* C4 as stated: on a non-empty snapshot spending_by_category returns one
\* row per distinct category, ordered by category sum descending, categories
\* of equal sum in the order in which they are first met in the snapshot.
C4_OrderTiesFirstEncountered ==
    (Returns("spending_by_category") /\ Snapshot # <<>>) =>
        LET df == Snapshot
            rows == result.ret.val
        IN  /\ OneRowPerKey(rows, "category", df, "category")
            /\ \A j, k \in 1..Len(rows) :
                  j < k =>
                     LET sj == SumWhere(df, "category", rows[j].category)
                         sk == SumWhere(df, "category", rows[k].category)
                     IN  \/ sj > sk
                         \/ /\ sj = sk
                            /\ FirstSeen(df, "category", rows[j].category)
                                 < FirstSeen(df, "category", rows[k].category)

\* C4 as amended: on a non-empty snapshot spending_by_category returns one
\* row per distinct category, each with the category's sum rounded to 2
\* decimals, ordered by that rounded sum descending; nothing is said about
\* the order of categories whose rounded sums are equal.
C4_OrderByRoundedTotal ==
    (result.op = "spending_by_category" /\ Snapshot # <<>>) =>
        /\ result.ret.kind = "value"
        /\ LET df == Snapshot
               rows == result.ret.val
           IN  /\ OneRowPerKey(rows, "category", df, "category")
               /\ \A j \in 1..Len(rows) :
                     /\ rows[j].Total = Round2(SumWhere(df, "category", rows[j].category))
                     /\ rows[j].Count = CountWhere(df, "category", rows[j].category)
               /\ \A j, k \in 1..Len(rows) : j < k => rows[j].Total >= rows[k].Total

\* Three categories; the two with the equal, smaller total are listed against
\* the order in which the snapshot first meets them.
C4_Witness ==
    /\ Returns("spending_by_category")
    /\ Len(result.ret.val) = 3
    /\ result.ret.val[1].Total > result.ret.val[2].Total
    /\ result.ret.val[2].Total = result.ret.val[3].Total
    /\ FirstSeen(Snapshot, "category", result.ret.val[3].category)
         < FirstSeen(Snapshot, "category", result.ret.val[2].category)

\* Every stored date is a calendar date.
AllDatesValid == \A e \in expenses : ToDatetime(e.date).kind = "ok"

YearMonth(date) == <<date[1], date[2]>>

BucketsPartition(df, rows) ==
    /\ \A i \in 1..Len(df) :
          Cardinality({j \in 1..Len(rows) : rows[j].month = YearMonth(df[i].date)}) = 1
    /\ \A j \in 1..Len(rows) :
          rows[j].Num_Expenses
            = Cardinality({i \in 1..Len(df) : YearMonth(df[i].date) = rows[j].month})
    /\ SumSeq(Column(rows, "Num_Expenses")) = Len(df)
    /\ \A j, k \in 1..Len(rows) : j < k => TextLess(rows[j].month, rows[k].month)
    /\ Cardinality({YearMonth(df[i].date) : i \in 1..Len(df)}) = 1 => Len(rows) = 1

\* C5 as stated: on a non-empty snapshot with valid dates the buckets of
\* monthly_spending_trend partition the records by year-month, the bucket
\* counts add up to the record count, the bucket sums add up to the total
\* of all amounts, the buckets are in ascending order, and one month gives
\* one bucket.
C5_BucketSumsEqualTotal ==
    (Returns("monthly_spending_trend") /\ Snapshot # <<>> /\ AllDatesValid) =>
        /\ BucketsPartition(Snapshot, result.ret.val)
        /\ 10 * SumSeq(Column(result.ret.val, "Total_Spent")) = SumAmount(Snapshot)

\* C5 as amended: the same, but the bucket sums, each rounded to 2 decimals,
\* add up to the total of all amounts to within half a cent per bucket.
C5_BucketsPartitionSnapshot ==
    (result.op = "monthly_spending_trend" /\ Snapshot # <<>> /\ AllDatesValid) =>
        /\ result.ret.kind = "value"
        /\ BucketsPartition(Snapshot, result.ret.val)
        /\ AbsDiff(10 * SumSeq(Column(result.ret.val, "Total_Spent")),
                   SumAmount(Snapshot)) <= 5 * Len(result.ret.val)

\* Two months, three records, and the rounded bucket sums miss the total.
C5_Witness ==
    /\ Returns("monthly_spending_trend")
    /\ AllDatesValid
    /\ Cardinality(expenses) = 3
    /\ Len(result.ret.val) = 2
    /\ 10 * SumSeq(Column(result.ret.val, "Total_Spent")) # SumAmount(Snapshot)

\* C6: on a non-empty snapshot of positive amounts every percentage of
\* category_percentage is 100 * category sum / total, taken from the
\* unrounded sums and rounded to 2 decimals, and the percentages add up to
\* 100.00 to within 0.01 per category.
C6_PercentagesSumTo100 ==
    (result.op = "category_percentage" /\ Snapshot # <<>>
       /\ \A e \in expenses : e.amount > 0) =>
        /\ result.ret.kind = "value"
        /\ LET df == Snapshot
               rows == result.ret.val
           IN  /\ OneRowPerKey(rows, "category", df, "category")
               /\ \A j \in 1..Len(rows) :
                     LET s == SumWhere(df, "category", rows[j].category)
                     IN  /\ 2 * AbsDiff(SumAmount(df) * rows[j].Percentage, 10000 * s)
                              <= SumAmount(df)
               /\ AbsDiff(SumSeq(Column(rows, "Percentage")), 10000) <= Len(rows)

\* Three categories of equal sum: 33.33 each, 99.99 together.
C6_Witness ==
    /\ Returns("category_percentage")
    /\ Len(result.ret.val) = 3
    /\ SumSeq(Column(result.ret.val, "Percentage")) # 10000

\* The value of a column that occurs most often in the snapshot, the one
\* met first among those that occur equally often.
MostFrequentFirstSeen(df, col) ==
    CHOOSE v \in {df[i][col] : i \in 1..Len(df)} :
        \A w \in {df[i][col] : i \in 1..Len(df)} \ {v} :
            \/ CountWhere(df, col, v) > CountWhere(df, col, w)
            \/ /\ CountWhere(df, col, v) = CountWhere(df, col, w)
               /\ FirstSeen(df, col, v) < FirstSeen(df, col, w)

MostFrequentHasHighestCount ==
    (Returns("find_patterns") /\ Snapshot # <<>>) =>
        \A i \in 1..Len(Snapshot) :
            /\ CountWhere(Snapshot, "category", result.ret.val[1].value)
                 >= CountWhere(Snapshot, "category", Snapshot[i].category)
            /\ CountWhere(Snapshot, "payment_method", result.ret.val[3].value)
                 >= CountWhere(Snapshot, "payment_method", Snapshot[i].payment_method)

\* The day numbers of the dates of the snapshot that are calendar dates.
RecordDays(df) ==
    {Ordinal(df[i].date[1], df[i].date[2], df[i].date[3]) :
       i \in {j \in 1..Len(df) : ToDatetime(df[j].date).kind = "ok"}}

DailyAverageIs(df, avg) ==
    /\ ~avg.nan
    /\ RecordDays(df) # {}
    /\ LET divisor == Max(RecordDays(df)) - Min(RecordDays(df)) + 1
       IN  /\ divisor >= 1
           /\ avg.cents = RoundHalfEven(SumAmount(df), 10 * divisor)
    /\ Cardinality({df[i].date : i \in 1..Len(df)}) = 1
         => avg.cents = Round2(SumAmount(df))

\* C8: the average daily spending of find_patterns is the total amount
\* divided by the whole days between the latest and the earliest record date
\* plus 1; the divisor is at least 1, and it is 1 when all records share one
\* date.
C8_DailyAverageInclusiveDays ==
    (Returns("find_patterns") /\ Snapshot # <<>>) =>
        DailyAverageIs(Snapshot, result.ret.val[4].value)

\* What C8 says does hold whenever every stored date is a calendar date.
DailyAverageOnValidDates ==
    (result.op = "find_patterns" /\ Snapshot # <<>> /\ AllDatesValid) =>
        /\ result.ret.kind = "value"
        /\ DailyAverageIs(Snapshot, result.ret.val[4].value)

\* C9: with a record whose date is not a calendar date in the snapshot,
\* monthly_spending_trend and find_patterns raise a fault that names the id
\* of such a record; they return neither the empty-dataset result nor a
\* result that leaves the record out.
C9_MalformedDateRaisesWithId ==
    (result.op \in {"monthly_spending_trend", "find_patterns"} /\ ~AllDatesValid) =>
        /\ result.ret.kind = "raise"
        /\ \E e \in expenses :
              /\ ToDatetime(e.date).kind # "ok"
              /\ result.ret = [kind |-> "raise", error |-> "MalformedDate", id |-> e.id]

\* Everything the analyzer computes from a table.
AnalysisResults(table, ties) ==
    LET df == GetAllExpenses(table)
    IN  << GetSpendingSummary(df), SpendingByCategory(df, ties),
           SpendingByPaymentMethod(df, ties), MonthlySpendingTrend(df),
           [n \in TopArgs |-> TopExpenses(df, n)], CategoryPercentage(df, ties),
           FindPatterns(df, ties) >>

\* C10: delete_expense(id) returns true exactly when a record with that id
\* is stored and removes that record only; for an id that is not stored it
\* returns false and leaves the records, and so every analysis result,
\* as they were.
C10_DeleteExpense ==
    [][ result'.op = "delete_expense" =>
          LET expense_id == result'.args[1]
              present == \E e \in expenses : e.id = expense_id
          IN  /\ result'.ret = Value(present)
              /\ expenses' = {e \in expenses : e.id # expense_id}
              /\ ~present =>
                    /\ expenses' = expenses
                    /\ AnalysisResults(expenses', argsort_ties')
                         = AnalysisResults(expenses, argsort_ties) ]_vars

\* An id that is not stored was deleted from a store holding two records.
C10_Witness ==
    /\ result.op = "delete_expense"
    /\ result.ret = Value(FALSE)
    /\ Cardinality(expenses) = 2
    /\ \A e \in expenses : e.id # result.args[1]

\* C11: over any sequence of add_expense and delete_expense calls every id
\* add_expense returns is greater than every id it returned before, so no
\* two records share an id and the id of a deleted record, the largest one
\* included, is not given out again.
C11_IdsStrictlyIncreasing ==
    /\ \A i, j \in 1..Len(issued) : i < j => issued[i] < issued[j]
    /\ \A e \in expenses : e.id \in Range(issued)
    /\ \A e, f \in expenses : e.id = f.id => e = f
    /\ result.op = "add_expense" =>
          /\ result.ret = Value(issued[Len(issued)])
          /\ \E e \in expenses : e.id = result.ret.val

\* The record with the largest id was deleted and the next insert got a new,
\* larger id.
C11_Witness ==
    /\ result.op = "add_expense"
    /\ issued = <<1, 2, 3>>
    /\ {e.id : e \in expenses} = {1, 3}

AnalyzerOps ==
    {"get_spending_summary", "spending_by_category", "spending_by_payment_method",
     "monthly_spending_trend", "top_expenses", "category_percentage",
     "find_patterns"}

\* C12: no analyzer operation changes the store: after an analyzer call the
\* stored records, ids and all fields, and the id counter are those before
\* it; and the same operation called again with no insert or delete in
\* between returns the same result.
C12_AnalyzerLeavesStore ==
    [][ result'.op \in AnalyzerOps =>
          /\ expenses' = expenses
          /\ sqlite_seq' = sqlite_seq
          /\ (result.op = result'.op /\ result.args = result'.args)
                => result'.ret = result.ret ]_vars

\* find_patterns, which rewrites the date column of its own frame, returned
\* its findings for a store of three records.
C12_Witness ==
    /\ Returns("find_patterns")
    /\ Cardinality(expenses) = 3
    /\ Len(result.ret.val) = 5

====
